---- MODULE Spec2Model ----
(***************************************************************************)
(* State-machine model of midimix_ardour_x42eq.py: the bridge between an   *)
(* AKAI MIDIMIX surface (MIDI notes / control changes, LED notes) and the  *)
(* Ardour console (OSC commands, OSC feedback).                            *)
(*                                                                         *)
(* Two threads run in the program: the MIDI input thread, which runs       *)
(* surface_callback for one message at a time, and the asyncio thread,     *)
(* which runs the OSC handlers.  surface_callback yields to the asyncio    *)
(* thread at its osc.send / time.sleep calls; the model splits it there    *)
(* (variable pc) and lets OSC deliveries interleave.                       *)
(***************************************************************************)
EXTENDS Integers, Sequences, FiniteSets, TLC

(***************************************************************************)
(* Bounds of the model.                                                    *)
(***************************************************************************)
\* console messages in flight to the surface
MaxNet == 1
\* entries the descriptor accumulator may hold (the code never caps it)
MaxDesc == 1
\* parameters a module reports, one reply each
MaxParams == 1
\* a plugin chain holds 0..MaxFew equalizers, or MaxEqs of them
MaxFew == 2
MaxEqs == 9

(***************************************************************************)
(* Static tables (src lines 116-206).                                      *)
(***************************************************************************)
mutes == <<1, 4, 7, 10, 13, 16, 19, 22>>
recs == <<3, 6, 9, 12, 15, 18, 21, 24>>
b_left == 25
b_right == 26
b_solo == 27
\* the control the EQ mode reserves for muting the strip in the mix
mix_mute == 24
\* operation['strip'] = None
None == 0

Range(s) == {s[i] : i \in 1..Len(s)}
\* tuple.index(x), 0-based as in Python
Index(s, x) == (CHOOSE i \in 1..Len(s) : s[i] = x) - 1
\* s[i] with Python's indexing: 0-based, negative indexes count from the end
PyAt(s, i) == IF i < 0 THEN s[Len(s) + i + 1] ELSE s[i + 1]

\* keys of bank[b]['led_stat_mix'] and bank[b]['led_stat_eq']
LedIds == Range(mutes) \cup Range(recs)
\* every LED the program writes
AllLeds == LedIds \cup {b_left, b_right}
Banks == 0..2
Strips == 1..24

EqMono == "x42-eq - Parametric Equalizer Mono"
EqStereo == "x42-eq - Parametric Equalizer Stereo"
OtherPlugin == "a-Compressor"

\* eq_leds: parameter name -> LED
eq_leds == [n \in {"Enable", "Reset Peak Hold", "Highpass", "Lowpass", "Lowshelf",
                   "Section 1", "Section 2", "Section 3", "Section 4", "Highshelf"} |->
              CASE n = "Enable" -> 3
                [] n = "Reset Peak Hold" -> 6
                [] n = "Highpass" -> 1
                [] n = "Lowpass" -> 4
                [] n = "Lowshelf" -> 7
                [] n = "Section 1" -> 10
                [] n = "Section 2" -> 13
                [] n = "Section 3" -> 16
                [] n = "Section 4" -> 19
                [] n = "Highshelf" -> 22]

\* the continuous controls: nine faders (62 is the master) and 24 knobs
faders == <<19, 23, 27, 31, 49, 53, 57, 61, 62>>
knobs == <<16, 17, 18, 20, 21, 22, 24, 25, 26, 28, 29, 30,
           46, 47, 48, 50, 51, 52, 54, 55, 56, 58, 59, 60>>

\* a float of the program, in fixed point: <<w, u>> stands for w + u / 10^6
\* with 0 <= u < 10^6
Micro == 1000000
Fixed(x) == <<x \div Micro, x % Micro>>
\* a faulty variant of Linear, which leaves min out
LinearFromZero(minW, minU, incW, incU, value) ==
    <<incW * value + ((incU * value) \div Micro), (incU * value) % Micro>>

\* min + incremento * value, the two factors given as whole part and millionths
Linear(minW, minU, incW, incU, value) ==
    <<minW + incW * value + ((minU + incU * value) \div Micro),
      (minU + incU * value) % Micro>>

\* eq_fad_knob: control -> <<min, incremento, plugin_opt>>, min and
\* incremento as whole part and millionths
eq_fad_knob == [c \in {16, 17, 20, 21, 24, 25, 27, 28, 29, 31, 46, 47, 49, 50, 51, 53, 54, 55, 57, 58, 59, 61, 19} |->
              CASE c = 16 -> <<5, 0, 9, 803100, 6>>
                [] c = 17 -> <<0, 0, 0, 11020, 7>>
                [] c = 20 -> <<500, 0, 153, 543300, 9>>
                [] c = 21 -> <<0, 0, 0, 11020, 10>>
                [] c = 24 -> <<25, 0, 2, 952750, 12>>
                [] c = 25 -> <<0, 62500, 0, 31000, 13>>
                [] c = 27 -> <<-18, 0, 0, 283464, 14>>
                [] c = 28 -> <<20, 0, 15, 590550, 16>>
                [] c = 29 -> <<0, 62500, 0, 31000, 17>>
                [] c = 31 -> <<-18, 0, 0, 283464, 18>>
                [] c = 46 -> <<40, 0, 31, 181100, 20>>
                [] c = 47 -> <<0, 62500, 0, 31000, 21>>
                [] c = 49 -> <<-18, 0, 0, 283464, 22>>
                [] c = 50 -> <<100, 0, 77, 952750, 24>>
                [] c = 51 -> <<0, 62500, 0, 31000, 25>>
                [] c = 53 -> <<-18, 0, 0, 283464, 26>>
                [] c = 54 -> <<200, 0, 155, 905510, 28>>
                [] c = 55 -> <<0, 62500, 0, 31000, 29>>
                [] c = 57 -> <<-18, 0, 0, 283464, 30>>
                [] c = 58 -> <<1000, 0, 118, 110200, 32>>
                [] c = 59 -> <<0, 62500, 0, 31000, 33>>
                [] c = 61 -> <<-18, 0, 0, 283464, 34>>
                [] c = 19 -> <<-18, 0, 0, 283464, 2>>]

\* eq_led_trigger: LED -> plugin parameter slot
eq_led_trigger == [l \in {3, 6, 1, 4, 7, 10, 13, 16, 19, 22} |->
              CASE l = 3 -> 1
                [] l = 6 -> 4
                [] l = 1 -> 5
                [] l = 4 -> 8
                [] l = 7 -> 11
                [] l = 10 -> 15
                [] l = 13 -> 19
                [] l = 16 -> 23
                [] l = 19 -> 27
                [] l = 22 -> 31]

(***************************************************************************)
(* operation['plugin_pos'] is None, one position, or the candidate list.   *)
(***************************************************************************)
PosNone == [kind |-> "None", val |-> <<>>]
PosInt(p) == [kind |-> "int", val |-> <<p>>]
PosList(m) == [kind |-> "list", val |-> m]

(***************************************************************************)
(* The surface's LEDs: mmix_out.send(note_on led velocity).  led is the    *)
(* state of the physical LEDs, log the LEDs written by the current step.   *)
(***************************************************************************)
enciende_led(out, led) ==
    [led |-> [out.led EXCEPT ![led] = TRUE], log |-> out.log \cup {led}]

apaga_led(out, led) ==
    [led |-> [out.led EXCEPT ![led] = FALSE], log |-> out.log \cup {led}]

\* one note_on with velocity 127 (v) or 0 for every LED of ls
WriteLeds(out, ls, v) ==
    [led |-> [l \in AllLeds |-> IF l \in ls THEN v[l] ELSE out.led[l]],
     log |-> out.log \cup ls]

apaga_leds(out) ==
    WriteLeds(out, LedIds \cup {b_left, b_right}, [l \in AllLeds |-> FALSE])

\* the mirrored mute of the active strip, as set_led_status and the EQ press read it
strip_muted(bnk, op) ==
    bnk.led_stat_mix[bnk.current][PyAt(mutes, (op.strip % 8) - 1)]

\* a faulty variant of set_led_status, which renders the mixer LEDs of bank 0
set_led_status_first(bnk, op, out) ==
    LET current == bnk.current IN
    IF op.mode = "mixer" THEN
        WriteLeds(out, AllLeds,
                  [l \in AllLeds |->
                      IF l = b_left THEN current = 1
                      ELSE IF l = b_right THEN current = 2
                      ELSE bnk.led_stat_mix[0][l]])
    ELSE IF op.mode = "EQ" THEN
        WriteLeds(out, LedIds,
                  [l \in AllLeds |->
                      IF l = 24 THEN bnk.led_stat_eq[current][l] \/ strip_muted(bnk, op)
                      ELSE IF l \in LedIds THEN bnk.led_stat_eq[current][l]
                      ELSE FALSE])
    ELSE out

set_led_status(bnk, op, out) ==
    LET current == bnk.current IN
    IF op.mode = "mixer" THEN
        WriteLeds(out, AllLeds,
                  [l \in AllLeds |->
                      IF l = b_left THEN current = 1
                      ELSE IF l = b_right THEN current = 2
                      ELSE bnk.led_stat_mix[current][l]])
    ELSE IF op.mode = "EQ" THEN
        WriteLeds(out, LedIds,
                  [l \in AllLeds |->
                      IF l = 24 THEN bnk.led_stat_eq[current][l] \/ strip_muted(bnk, op)
                      ELSE IF l \in LedIds THEN bnk.led_stat_eq[current][l]
                      ELSE FALSE])
    ELSE out

\* set_mixer_mode: the new operation, and the LEDs it renders
MixerOperation == [mode |-> "mixer", strip |-> None, plugin_pos |-> PosNone]

set_mixer_mode(bnk, out) ==
    set_led_status(bnk, MixerOperation, apaga_led(apaga_led(out, b_left), b_right))

(***************************************************************************)
(* Mixer toggles (trigger_mute, trigger_rec, operar_led) and the console   *)
(* feedback handlers (event_mute, event_recenable).                        *)
(***************************************************************************)
Cmd(path, args) == [path |-> path, args |-> args]

\* operation['plugin_pos'] as an argument of osc.send: the position, or None
\* or the candidate list when no position was selected
PosArg(pos) == IF pos.kind = "int" THEN pos.val[1] ELSE pos.val

\* a faulty variant of KnobFormat, which cuts the fraction instead of rounding it
KnobFormatCut(k) == ((k % 3) * 100) \div 3

\* "{:.2f}".format(k / 3 % 1): the two decimals of the fraction of k / 3,
\* rounded to the nearest hundredth
KnobFormat(k) == (2 * ((k % 3) * 100) + 3) \div 6

\* lines 662-704: the commands a control_change sends
control_change(bnk, op, control, value) ==
    IF op.mode = "mixer" THEN
        (IF control \in Range(faders) THEN
            IF control = 62
            THEN <<Cmd("/master/gain", Fixed(-193000000 + 1622000 * value))>>
            ELSE <<Cmd("/strip/fader",
                       <<(Index(faders, control) + 1) + 8 * bnk.current>>
                           \o Fixed(7900 * value))>>
         ELSE <<>>)
        \o
        (IF control \in Range(knobs) THEN
            LET k == Index(knobs, control)
                knob == KnobFormat(k)
                strip_id == (k \div 3 + 1) + 8 * bnk.current
            IN  IF knob = 0
                THEN <<Cmd("/strip/trimdB",
                           <<strip_id>> \o Fixed(-20000000 + 314960 * value))>>
                ELSE IF knob = 33
                THEN <<Cmd("/strip/pan_stereo_position",
                           <<strip_id>> \o Fixed(1000000 - 7870 * value))>>
                ELSE IF knob = 67
                THEN <<Cmd("/strip/solo",
                           <<strip_id>> \o (IF value > 90 THEN Fixed(1000000) ELSE Fixed(0)))>>
                ELSE <<>>
         ELSE <<>>)
    ELSE IF op.mode = "EQ" THEN
        IF control = 62
        THEN <<Cmd("/strip/fader", <<op.strip>> \o Fixed(7900 * value))>>
        ELSE IF control = 18
        THEN <<Cmd("/strip/pan_stereo_position", <<op.strip>> \o Fixed(1000000 - 7870 * value))>>
        ELSE IF control = 60
        THEN <<Cmd("/strip/solo",
                   <<op.strip>> \o (IF value > 90 THEN Fixed(1000000) ELSE Fixed(0)))>>
        ELSE IF control \in DOMAIN eq_fad_knob
        THEN LET e == eq_fad_knob[control] IN
             <<Cmd("/strip/plugin/parameter",
                   <<op.strip, PosArg(op.plugin_pos), e[5]>>
                       \o Linear(e[1], e[2], e[3], e[4], value))>>
        ELSE <<>>
    ELSE <<>>

SetMix(bnk, b, led, v) == [bnk EXCEPT !.led_stat_mix[b][led] = v]
SetEq(bnk, b, led, v) == [bnk EXCEPT !.led_stat_eq[b][led] = v]

\* trigger_mute: the bank after the toggle and the command sent
trigger_mute(bnk, op, led_id) ==
    LET current == bnk.current
        strip_id == IF op.mode = "mixer"
                    THEN (Index(mutes, led_id) + 1) + (8 * current)
                    ELSE op.strip
        led == IF op.mode = "mixer" THEN led_id
               ELSE PyAt(mutes, (op.strip % 8) - 1)
    IN  IF bnk.led_stat_mix[current][led]
        THEN [bank |-> SetEq(SetMix(bnk, current, led, FALSE), current, 21, FALSE),
              msg |-> Cmd("/strip/mute", <<strip_id, 0>>)]
        ELSE [bank |-> SetEq(SetMix(bnk, current, led, TRUE), current, 21, TRUE),
              msg |-> Cmd("/strip/mute", <<strip_id, 1>>)]

\* trigger_rec(led_id), strip_id left to its default
trigger_rec(bnk, led_id) ==
    LET current == bnk.current
        strip_id == Index(recs, led_id) + 1 + (8 * current)
    IN  IF bnk.led_stat_mix[current][led_id]
        THEN [bank |-> SetMix(bnk, current, led_id, FALSE),
              msg |-> Cmd("/strip/recenable", <<strip_id, 0>>)]
        ELSE [bank |-> SetMix(bnk, current, led_id, TRUE),
              msg |-> Cmd("/strip/recenable", <<strip_id, 1>>)]

\* operar_led: toggles the mirror entry of the mode and writes the LED.  Its
\* callers pass only keys of the mirror, so led_status.get never yields None.
operar_led(bnk, op, out, led_id) ==
    LET current == bnk.current IN
    IF op.mode = "EQ" THEN
        IF ~bnk.led_stat_eq[current][led_id]
        THEN [bank |-> SetEq(bnk, current, led_id, TRUE), out |-> enciende_led(out, led_id)]
        ELSE [bank |-> SetEq(bnk, current, led_id, FALSE), out |-> apaga_led(out, led_id)]
    ELSE
        IF ~bnk.led_stat_mix[current][led_id]
        THEN [bank |-> SetMix(bnk, current, led_id, TRUE), out |-> enciende_led(out, led_id)]
        ELSE [bank |-> SetMix(bnk, current, led_id, FALSE), out |-> apaga_led(out, led_id)]

\* strip_bank of event_mute / event_recenable
strip_bank_of(strip_id) ==
    IF strip_id % 8 = 0 THEN (strip_id \div 8) - 1 ELSE strip_id \div 8

event_mute(bnk, op, out, strip_id, valor) ==
    LET on == (valor = 1)
        strip_bank == strip_bank_of(strip_id)
    IN  IF strip_bank < 3 THEN
            LET bank_led == (strip_id - 1) - (8 * strip_bank)
                led == PyAt(mutes, bank_led)
            IN  [bank |-> SetEq(SetMix(bnk, strip_bank, led, on), strip_bank, 21, on),
                 out |-> IF op.mode = "mixer" /\ strip_bank = bnk.current
                         THEN (IF on THEN enciende_led(out, led) ELSE apaga_led(out, led))
                         ELSE out]
        ELSE [bank |-> bnk, out |-> out]

event_recenable(bnk, op, out, strip_id, valor) ==
    LET on == (valor = 1)
        strip_bank == strip_bank_of(strip_id)
    IN  IF strip_bank < 3 THEN
            LET bank_led == (strip_id - 1) - (8 * strip_bank)
                led == PyAt(recs, bank_led)
            IN  [bank |-> SetMix(bnk, strip_bank, led, on),
                 out |-> IF op.mode = "mixer"
                         THEN (IF on THEN enciende_led(out, led) ELSE apaga_led(out, led))
                         ELSE out]
        ELSE [bank |-> bnk, out |-> out]

(***************************************************************************)
(* Discovery: the buffers plugin_list / plugin_desc and search_eq_strip.   *)
(***************************************************************************)
\* the arguments aiosc hands to get_plugin_list: addr, path, ssid and one
\* (id, name, enabled) triple per plugin of the strip.  The code reads the
\* length and the names only; addr and ssid are kept as place holders.
ListArgs(names) ==
    LET F[i \in 0..Len(names)] ==
            IF i = 0 THEN <<"addr", "/strip/plugin/list", "ssid">>
            ELSE F[i - 1] \o <<i, names[i], 1>>
    IN  F[Len(names)]

\* the arguments aiosc hands to get_plugin_desc for one parameter: addr, path,
\* ssid, piid, parameter id, name, flags, type, min, max, format, scale points
\* and the current value.  The code reads val[5], the name, and val[12], the
\* value; the other fields are place holders.
DescArgs(name, value) ==
    <<"addr", "/strip/plugin/descriptor", "ssid", "piid", 0, name, 0, "f", 0, 1, "%f", 0,
      value>>

get_plugin_list(args) == args

get_plugin_desc(desc, args) == Append(desc, args)

\* plugin_list[4::3]
Slice4_3(s) ==
    LET n == IF Len(s) <= 4 THEN 0 ELSE ((Len(s) - 5) \div 3) + 1
    IN  [i \in 1..n |-> s[5 + 3 * (i - 1)]]

\* a faulty variant of PositionsOf, which collects i instead of i + 1
PositionsOfFrom0(plugin_names, name) ==
    LET F[i \in 0..Len(plugin_names)] ==
            IF i = 0 THEN <<>>
            ELSE IF plugin_names[i] = name THEN Append(F[i - 1], i - 1) ELSE F[i - 1]
    IN  F[Len(plugin_names)]

\* the positions i + 1 of the entries of plugin_names equal to name, in order
PositionsOf(plugin_names, name) ==
    LET F[i \in 0..Len(plugin_names)] ==
            IF i = 0 THEN <<>>
            ELSE IF plugin_names[i] = name THEN Append(F[i - 1], i) ELSE F[i - 1]
    IN  F[Len(plugin_names)]

\* a faulty variant of SearchList, which takes the first of more than eight
\* equalizers instead of giving up
SearchListTakeFirst(list) ==
    IF Len(list) < 4 THEN [res |-> "fail", m_pos |-> <<>>]
    ELSE LET plugin_names == Slice4_3(list) IN
         IF EqMono \notin Range(plugin_names) /\ EqStereo \notin Range(plugin_names)
         THEN [res |-> "fail", m_pos |-> <<>>]
         ELSE LET m_pos == IF EqMono \notin Range(plugin_names)
                           THEN PositionsOf(plugin_names, EqStereo)
                           ELSE PositionsOf(plugin_names, EqMono)
              IN  IF Len(m_pos) > 1 /\ Len(m_pos) <= 8
                  THEN [res |-> "many", m_pos |-> m_pos]
                  ELSE [res |-> "one", m_pos |-> m_pos]

\* a faulty variant of SearchList, which asks for a key press for a single
\* equalizer too
SearchListOneIsMany(list) ==
    IF Len(list) < 4 THEN [res |-> "fail", m_pos |-> <<>>]
    ELSE LET plugin_names == Slice4_3(list) IN
         IF EqMono \notin Range(plugin_names) /\ EqStereo \notin Range(plugin_names)
         THEN [res |-> "fail", m_pos |-> <<>>]
         ELSE LET m_pos == IF EqMono \notin Range(plugin_names)
                           THEN PositionsOf(plugin_names, EqStereo)
                           ELSE PositionsOf(plugin_names, EqMono)
              IN  IF Len(m_pos) > 0
                  THEN IF Len(m_pos) > 8 THEN [res |-> "fail", m_pos |-> m_pos]
                       ELSE [res |-> "many", m_pos |-> m_pos]
                  ELSE [res |-> "one", m_pos |-> m_pos]

\* search_eq_strip up to its first decision: "fail" (set_mixer_mode),
\* "many" (read_keypress with m_pos) or "one" (descriptor fetch of pos)
SearchList(list) ==
    IF Len(list) < 4 THEN [res |-> "fail", m_pos |-> <<>>]
    ELSE LET plugin_names == Slice4_3(list) IN
         IF EqMono \notin Range(plugin_names) /\ EqStereo \notin Range(plugin_names)
         THEN [res |-> "fail", m_pos |-> <<>>]
         ELSE LET m_pos == IF EqMono \notin Range(plugin_names)
                           THEN PositionsOf(plugin_names, EqStereo)
                           ELSE PositionsOf(plugin_names, EqMono)
              IN  IF Len(m_pos) > 1
                  THEN IF Len(m_pos) > 8 THEN [res |-> "fail", m_pos |-> m_pos]
                       ELSE [res |-> "many", m_pos |-> m_pos]
                  ELSE [res |-> "one", m_pos |-> m_pos]

\* a faulty variant of SeedRow, in which the first entry of an LED wins
SeedRowFirstWins(desc) ==
    LET F[i \in 0..Len(desc)] ==
            IF i = 0 THEN [l \in LedIds |-> FALSE]
            ELSE LET val == desc[Len(desc) - i + 1] IN
                 IF Len(val) >= 13 /\ val[6] \in DOMAIN eq_leds
                 THEN [F[i - 1] EXCEPT ![eq_leds[val[6]]] = (val[13] > 0)]
                 ELSE F[i - 1]
    IN  F[Len(desc)]

\* the loop over plugin_desc of search_eq_strip and espera_indice_modulo_eq:
\* the current bank's led_stat_eq cleared, then set from every entry whose
\* name resolves (a KeyError, IndexError or TypeError skips the entry)
SeedRow(desc) ==
    LET F[i \in 0..Len(desc)] ==
            IF i = 0 THEN [l \in LedIds |-> FALSE]
            ELSE LET val == desc[i] IN
                 IF Len(val) >= 13 /\ val[6] \in DOMAIN eq_leds
                 THEN [F[i - 1] EXCEPT ![eq_leds[val[6]]] = (val[13] > 0)]
                 ELSE F[i - 1]
    IN  F[Len(desc)]

SeedEqLeds(bnk, desc) == [bnk EXCEPT !.led_stat_eq[bnk.current] = SeedRow(desc)]

(***************************************************************************)
(* State.                                                                  *)
(***************************************************************************)
VARIABLES
    bank,         \* bank['current'] and the three banks' led_stat_mix / led_stat_eq
    operation,    \* operation: mode, strip, plugin_pos
    note_press,   \* note_press: the held note and whether one is held
    plugin_list,  \* the arguments of the last /strip/plugin/list reply
    plugin_desc,  \* the accumulated /strip/plugin/descriptor replies
    mmix_out,     \* the surface: its LEDs, and the LEDs written by the last step
    pc,           \* where surface_callback stands: "idle" between two messages
    frame,        \* the locals of the suspended surface_callback
    sent,         \* the OSC commands sent while handling the last surface message
    to_surface,   \* OSC messages of the console in flight to the surface
    console,      \* the console: mute and record-arm flag of every strip
    env,          \* the strip position and the control the operator works in this behaviour
    cyc,          \* progress of a press, release, press sequence on one control
    fresh,        \* the replies delivered since the running query was started
    prev,         \* operation['mode'] as it was when the last surface message arrived
    osc,          \* what osc.send does: "up" (the console receives the command),
                  \* "raises" (osc is None before the first session connects, or the
                  \* endpoint refuses), "drops" (the session is lost, nothing arrives)
    raised        \* the exception that left surface_callback uncaught when it handled
                  \* the last surface message, "none" when it returned

vars == <<bank, operation, note_press, plugin_list, plugin_desc, mmix_out, pc,
          frame, sent, to_surface, console, env, cyc, fresh, prev, osc, raised>>

NoFrame == [strip_id |-> 0, pos |-> 0, note |-> 0]
NoCycle == [n |-> 0, note |-> 0, bank |-> 0, before |-> FALSE, first |-> <<>>, second |-> <<>>]
NoReplies == [list |-> <<>>, desc |-> <<>>]

\* the module-level globals as the program sets them when it is loaded
Globals ==
    /\ bank = [current |-> 0,
               led_stat_mix |-> [b \in Banks |-> [l \in LedIds |-> FALSE]],
               led_stat_eq |-> [b \in Banks |-> [l \in LedIds |-> FALSE]]]
    /\ operation = MixerOperation
    /\ note_press = [note |-> None, state |-> FALSE]
    /\ plugin_list = <<>>
    /\ plugin_desc = <<>>
    /\ mmix_out = [led |-> [l \in AllLeds |-> FALSE], log |-> {}]
    /\ pc = "idle"
    /\ frame = NoFrame
    /\ sent = <<>>
    /\ to_surface = <<>>
    /\ console = [mute |-> [s \in Strips |-> FALSE], rec |-> [s \in Strips |-> FALSE]]
    /\ env \in [pos : 1..8, ctl : {"mute", "rec"}]
    /\ cyc = NoCycle
    /\ fresh = NoReplies
    /\ prev = "mixer"
    /\ raised = "none"

\* a session is running
Init == Globals /\ osc = "up"

\* the LED log starts empty in every step
Out0 == [mmix_out EXCEPT !.log = {}]

(***************************************************************************)
(* The console (Ardour).  A command sent over the local socket is handled  *)
(* by the console at once; its replies and feedback travel back in order   *)
(* and are handled by the asyncio thread whenever it runs.                 *)
(***************************************************************************)
\* the plugin chains a strip may hold: an optional leading module and a
\* few mono equalizers, a stereo equalizer alone or before a mono one, and
\* long chains of equalizers
Chains ==
    {lead \o [i \in 1..k |-> EqMono] : lead \in {<<>>, <<OtherPlugin>>}, k \in 0..MaxFew}
        \cup {<<EqStereo>>, <<EqStereo, EqMono>>}
        \cup {[i \in 1..k |-> EqMono] : k \in MaxEqs..MaxEqs}

\* the parameters a module may report
Params == {<<"Highpass", 1>>, <<"Highpass", 0>>, <<"High pass freq", 1>>}

\* what the console does with a command: its flags after it, and its replies
ConsoleReplies(msg) ==
    IF msg.path \in {"/strip/mute", "/strip/recenable"} THEN
        LET s == msg.args[1]
            v == (msg.args[2] = 1)
            f == IF msg.path = "/strip/mute" THEN "mute" ELSE "rec"
        IN  IF console[f][s] # v
            THEN {[console |-> [console EXCEPT ![f][s] = v], msgs |-> <<msg>>]}
            ELSE {[console |-> console, msgs |-> <<>>]}
    ELSE IF msg.path = "/strip/plugin/list" THEN
        \* one reply; its arguments are drawn when it is handed over
        {[console |-> console, msgs |-> <<Cmd(msg.path, <<>>)>>]}
    ELSE IF msg.path = "/strip/plugin/descriptor" THEN
        \* one reply per parameter of the module
        {[console |-> console, msgs |-> [i \in 1..k |-> Cmd(msg.path, <<>>)]] :
            k \in 0..MaxParams}
    ELSE {[console |-> console, msgs |-> <<>>]}

Notify(msgs) ==
    /\ Len(to_surface) + Len(msgs) <= MaxNet
    /\ to_surface' = to_surface \o msgs

NoSend == UNCHANGED <<to_surface, console>>

\* osc.send(...) that does not raise
Send(msg) ==
    IF osc = "up"
    THEN \E r \in ConsoleReplies(msg) :
            /\ Notify(r.msgs)
            /\ console' = r.console
    ELSE NoSend

\* osc.send(...) raises; surface_callback catches the exception (line 652)
Raises == osc = "raises"

\* a flag of a strip changes at the console itself (out of band): the mute
\* flag, or the record-arm flag in the behaviours that work the rec control
ConsoleChange(s) ==
    /\ console' = [console EXCEPT ![env.ctl][s] = ~console[env.ctl][s]]
    /\ IF osc = "up"
       THEN Notify(<<Cmd(IF env.ctl = "mute" THEN "/strip/mute" ELSE "/strip/recenable",
                         <<s, IF console[env.ctl][s] THEN 0 ELSE 1>>)>>)
       ELSE UNCHANGED to_surface
    /\ cyc' = NoCycle
    /\ UNCHANGED <<bank, operation, note_press, plugin_list, plugin_desc, mmix_out, pc,
                   frame, sent, env, fresh, prev, osc, raised>>

\* aiosc hands the next message to its handler (ArdourOSCServer.__init__)
Deliver ==
    /\ osc = "up"
    /\ to_surface # <<>>
    /\ LET m == Head(to_surface) IN
        IF m.path = "/strip/mute" THEN
            LET r == event_mute(bank, operation, Out0, m.args[1], m.args[2]) IN
            /\ bank' = r.bank
            /\ mmix_out' = r.out
            /\ UNCHANGED <<plugin_list, plugin_desc, fresh>>
        ELSE IF m.path = "/strip/recenable" THEN
            LET r == event_recenable(bank, operation, Out0, m.args[1], m.args[2]) IN
            /\ bank' = r.bank
            /\ mmix_out' = r.out
            /\ UNCHANGED <<plugin_list, plugin_desc, fresh>>
        ELSE IF m.path = "/strip/plugin/list" THEN
            \E names \in Chains :
                /\ plugin_list' = get_plugin_list(ListArgs(names))
                /\ fresh' = IF pc = "idle" THEN fresh
                            ELSE [fresh EXCEPT !.list = get_plugin_list(ListArgs(names))]
                /\ mmix_out' = Out0
                /\ UNCHANGED <<bank, plugin_desc>>
        ELSE
            \E p \in Params :
                /\ Len(plugin_desc) < MaxDesc
                /\ plugin_desc' = get_plugin_desc(plugin_desc, DescArgs(p[1], p[2]))
                /\ fresh' = IF pc = "idle" THEN fresh
                            ELSE [fresh EXCEPT !.desc =
                                     get_plugin_desc(fresh.desc, DescArgs(p[1], p[2]))]
                /\ mmix_out' = Out0
                /\ UNCHANGED <<bank, plugin_list>>
    /\ to_surface' = Tail(to_surface)
    /\ cyc' = NoCycle
    /\ UNCHANGED <<operation, note_press, pc, frame, sent, console, env, prev, osc, raised>>

(***************************************************************************)
(* surface_callback, note_on and note_off.                                 *)
(***************************************************************************)
\* two press / release cycles of one mute or rec control in Mixer mode with
\* nothing else in between: n counts the four messages, first and second
\* are the commands each press sent
CycleStep(type, note, msgs) ==
    IF type = "note_on" /\ cyc.n = 2 /\ cyc.note = note
    THEN [cyc EXCEPT !.n = 3, !.second = msgs]
    ELSE IF type = "note_off" /\ cyc.n \in {1, 3} /\ cyc.note = note
    THEN [cyc EXCEPT !.n = cyc.n + 1]
    ELSE IF type = "note_on" /\ note \in LedIds /\ operation.mode = "mixer"
            /\ ~note_press.state
    THEN [n |-> 1, note |-> note, bank |-> bank.current,
          before |-> bank.led_stat_mix[bank.current][note], first |-> msgs, second |-> <<>>]
    ELSE NoCycle

\* a faulty variant of Chord, which runs discovery for the active strip too
ChordAlwaysSearches(note) ==
    LET strip_id == (Index(mutes, note - 1) + 1) + (8 * bank.current) IN
    /\ operation' = [operation EXCEPT !.mode = "EQ", !.strip = strip_id]
    /\ Send(Cmd("/strip/plugin/list", <<strip_id>>))
    /\ sent' = <<Cmd("/strip/plugin/list", <<strip_id>>)>>
    /\ pc' = "list_wait"
    /\ frame' = [strip_id |-> strip_id, pos |-> 0, note |-> note]
    /\ mmix_out' = Out0
    /\ UNCHANGED <<bank, note_press, plugin_list, plugin_desc>>

\* lines 559-590: Solo is held and the note is a mute button's Solo note
Chord(note) ==
    LET strip_id == (Index(mutes, note - 1) + 1) + (8 * bank.current) IN
    IF (operation.mode = "mixer" \/ operation.strip # strip_id) /\ Raises THEN
        \* operation is set, then the list request of search_eq_strip raises
        /\ operation' = [operation EXCEPT !.mode = "EQ", !.strip = strip_id]
        /\ sent' = <<>>
        /\ mmix_out' = Out0
        /\ NoSend
        /\ UNCHANGED <<bank, note_press, plugin_list, plugin_desc, pc, frame>>
    ELSE IF operation.mode = "mixer" \/ operation.strip # strip_id THEN
        \* operation is set, then search_eq_strip sends the list request and sleeps
        /\ operation' = [operation EXCEPT !.mode = "EQ", !.strip = strip_id]
        /\ Send(Cmd("/strip/plugin/list", <<strip_id>>))
        /\ sent' = <<Cmd("/strip/plugin/list", <<strip_id>>)>>
        /\ pc' = "list_wait"
        /\ frame' = [strip_id |-> strip_id, pos |-> 0, note |-> note]
        /\ mmix_out' = Out0
        /\ UNCHANGED <<bank, note_press, plugin_list, plugin_desc>>
    ELSE
        /\ operation' = MixerOperation
        /\ mmix_out' = set_mixer_mode(bank, Out0)
        /\ sent' = <<>>
        /\ NoSend
        /\ UNCHANGED <<bank, note_press, plugin_list, plugin_desc, pc, frame>>

\* a faulty variant of Ignored, which lights the bank-left LED
IgnoredLightsBank ==
    /\ sent' = <<>>
    /\ mmix_out' = enciende_led(Out0, b_left)
    /\ NoSend
    /\ UNCHANGED <<bank, operation, note_press, plugin_list, plugin_desc, pc, frame>>

\* a faulty variant of Ignored, which forgets the held control
IgnoredReleases ==
    /\ sent' = <<>>
    /\ mmix_out' = Out0
    /\ note_press' = [note |-> None, state |-> FALSE]
    /\ NoSend
    /\ UNCHANGED <<bank, operation, plugin_list, plugin_desc, pc, frame>>

\* a press that reaches no branch: Solo + rec, or another control is held
Ignored ==
    /\ sent' = <<>>
    /\ mmix_out' = Out0
    /\ NoSend
    /\ UNCHANGED <<bank, operation, note_press, plugin_list, plugin_desc, pc, frame>>

\* espera_indice_modulo_eq up to its sleep
Espera(note) ==
    IF note \in Range(recs) /\ Index(recs, note) + 1 <= Len(operation.plugin_pos.val) THEN
        LET pos == operation.plugin_pos.val[Index(recs, note) + 1] IN
        IF Raises THEN
            \* plugin_pos and mode are set, then the descriptor request raises
            /\ operation' = [operation EXCEPT !.plugin_pos = PosInt(pos), !.mode = "EQ"]
            /\ sent' = <<>>
            /\ mmix_out' = Out0
            /\ NoSend
            /\ UNCHANGED <<bank, note_press, plugin_list, plugin_desc, pc, frame>>
        ELSE
        /\ operation' = [operation EXCEPT !.plugin_pos = PosInt(pos), !.mode = "EQ"]
        /\ Send(Cmd("/strip/plugin/descriptor", <<operation.strip, pos>>))
        /\ sent' = <<Cmd("/strip/plugin/descriptor", <<operation.strip, pos>>)>>
        /\ pc' = "espera_wait"
        /\ frame' = [strip_id |-> operation.strip, pos |-> pos, note |-> note]
        /\ mmix_out' = Out0
        /\ UNCHANGED <<bank, note_press, plugin_list, plugin_desc>>
    ELSE Ignored

\* a faulty variant of BankOp, which jumps to the first or the last bank
BankOpJump(note) ==
    LET bnk == [bank EXCEPT !.current = IF note = b_left THEN 0 ELSE 2]
    IN  /\ bank' = bnk
        /\ mmix_out' = set_led_status(bnk, operation, Out0)
        /\ sent' = <<>>
        /\ NoSend
        /\ UNCHANGED <<operation, note_press, plugin_list, plugin_desc, pc, frame>>

\* lines 602-619: bank left / bank right
BankOp(note) ==
    LET current == IF note = b_left
                   THEN (IF bank.current > 0 THEN bank.current - 1 ELSE bank.current)
                   ELSE (IF bank.current < 2 THEN bank.current + 1 ELSE bank.current)
        bnk == [bank EXCEPT !.current = current]
    IN  /\ bank' = bnk
        /\ mmix_out' = set_led_status(bnk, operation, Out0)
        /\ sent' = <<>>
        /\ NoSend
        /\ UNCHANGED <<operation, note_press, plugin_list, plugin_desc, pc, frame>>

\* lines 621-651: the note is recorded as held, then routed by mode
Pressed(note) ==
    /\ note_press' = [note |-> note, state |-> TRUE]
    /\ UNCHANGED <<operation, plugin_list, plugin_desc>>
    /\ IF operation.mode = "mixer" /\ note \in LedIds /\ Raises THEN
            \* trigger_mute / trigger_rec raise at their osc.send, before the
            \* mirror is assigned; operar_led is not reached
            /\ sent' = <<>>
            /\ mmix_out' = Out0
            /\ NoSend
            /\ UNCHANGED <<bank, pc, frame>>
       ELSE IF operation.mode = "mixer" /\ note \in LedIds THEN
            \* trigger_mute / trigger_rec; operar_led follows in its own step
            LET t == IF note \in Range(mutes) THEN trigger_mute(bank, operation, note)
                     ELSE trigger_rec(bank, note)
            IN  /\ bank' = t.bank
                /\ Send(t.msg)
                /\ sent' = <<t.msg>>
                /\ pc' = "operar_led"
                /\ frame' = [strip_id |-> 0, pos |-> 0, note |-> note]
                /\ mmix_out' = Out0
       ELSE IF operation.mode = "EQ" /\ note = mix_mute /\ Raises THEN
            \* trigger_mute raises at its osc.send; line 634 is not reached
            /\ sent' = <<>>
            /\ mmix_out' = Out0
            /\ NoSend
            /\ UNCHANGED <<bank, pc, frame>>
       ELSE IF operation.mode = "EQ" /\ note = mix_mute THEN
            LET t == trigger_mute(bank, operation, note) IN
                /\ bank' = t.bank
                /\ Send(t.msg)
                /\ sent' = <<t.msg>>
                /\ mmix_out' = IF strip_muted(t.bank, operation)
                               THEN enciende_led(Out0, 24) ELSE apaga_led(Out0, 24)
                /\ UNCHANGED <<pc, frame>>
       ELSE IF operation.mode = "EQ" /\ note # 27 /\ note \in DOMAIN eq_led_trigger THEN
            LET option == eq_led_trigger[note]
                valor == IF bank.led_stat_eq[bank.current][note] THEN 0 ELSE 1
                o == operar_led(bank, operation, Out0, note)
                msg == Cmd("/strip/plugin/parameter",
                           <<operation.strip, PosArg(operation.plugin_pos), option, valor>>)
            IN  \* operar_led (line 645) comes before the osc.send of line 646
                /\ bank' = o.bank
                /\ mmix_out' = o.out
                /\ IF Raises THEN NoSend ELSE Send(msg)
                /\ sent' = IF Raises THEN <<>> ELSE <<msg>>
                /\ UNCHANGED <<pc, frame>>
       ELSE
            \* no role in this mode (in EQ mode the lookup raises, and is caught)
            /\ sent' = <<>>
            /\ mmix_out' = Out0
            /\ NoSend
            /\ UNCHANGED <<bank, pc, frame>>

NoteOn(note) ==
    /\ pc = "idle"
    /\ IF note_press.state THEN
            IF note_press.note = b_solo /\ (note - 1) \in Range(mutes)
            THEN Chord(note)
            ELSE Ignored
       ELSE IF operation.mode = "read_keypress" THEN Espera(note)
       ELSE IF note = b_left \/ note = b_right THEN BankOp(note)
       ELSE Pressed(note)
    /\ cyc' = CycleStep("note_on", note, sent')
    /\ fresh' = NoReplies
    /\ prev' = operation.mode
    /\ raised' = "none"
    /\ UNCHANGED <<env, osc>>

\* the second half of a Mixer press: operar_led(msg.note)
OperarLed ==
    /\ pc = "operar_led"
    /\ LET o == operar_led(bank, operation, Out0, frame.note) IN
        /\ bank' = o.bank
        /\ mmix_out' = o.out
    /\ pc' = "idle"
    /\ frame' = NoFrame
    /\ UNCHANGED <<operation, note_press, plugin_list, plugin_desc, sent, to_surface,
                   console, env, cyc, fresh, prev, osc, raised>>

\* lines 655-660
NoteOff(note) ==
    /\ pc = "idle"
    /\ note_press' = IF note_press.note = note
                     THEN [note |-> None, state |-> FALSE] ELSE note_press
    /\ cyc' = CycleStep("note_off", note, <<>>)
    /\ sent' = <<>>
    /\ mmix_out' = Out0
    /\ prev' = operation.mode
    /\ UNCHANGED <<bank, operation, plugin_list, plugin_desc, pc, frame, to_surface,
                   console, env, fresh, osc>>
    /\ raised' = "none"

\* the control_change block (lines 662-704) lies outside the try of
\* surface_callback: in EQ mode eq_fad_knob[msg.control] (line 700) raises
\* KeyError for a control that is no key of it, and an osc.send that raises
\* is not caught either
Escapes(op, control, value) ==
    IF op.mode = "EQ" /\ control \notin {62, 18, 60} /\ control \notin DOMAIN eq_fad_knob
    THEN "KeyError"
    ELSE IF Raises /\ control_change(bank, op, control, value) # <<>>
    THEN "AttributeError"
    ELSE "none"

\* lines 662-704: a control_change of a fader or a knob; it sends at most
\* one command and assigns no global
ControlChange(control, value) ==
    /\ pc = "idle"
    /\ LET msgs == IF Raises THEN <<>> ELSE control_change(bank, operation, control, value)
       IN  /\ sent' = msgs
           /\ IF msgs = <<>> THEN NoSend ELSE Send(msgs[1])
    /\ mmix_out' = Out0
    /\ cyc' = NoCycle
    /\ prev' = operation.mode
    /\ UNCHANGED <<bank, operation, note_press, plugin_list, plugin_desc, pc, frame,
                   env, fresh, osc>>
    /\ raised' = Escapes(operation, control, value)

(***************************************************************************)
(* search_eq_strip and espera_indice_modulo_eq after their sleeps.         *)
(***************************************************************************)
\* what search_eq_strip leaves in the buffers when it returns (it clears neither)
ListAfterSearch(list) == list
DescAfterSearch(desc) == desc
\* espera_indice_modulo_eq: plugin_desc = () on the global, plugin_list = ()
\* on a local name only
ListAfterEspera(list) == list
DescAfterEspera(desc) == <<>>

\* a faulty variant of ReadKeypressLeds, which lights every rec LED
ReadKeypressLedsAll(out, m_pos) ==
    LET o1 == apaga_leds(out)
        o2 == WriteLeds(o1, Range(recs), [l \in AllLeds |-> TRUE])
    IN  enciende_led(enciende_led(o2, b_left), b_right)

\* lines 381-387 and 569-572: the LEDs of read_keypress
ReadKeypressLeds(out, m_pos) ==
    LET lit == {recs[i] : i \in 1..Len(m_pos)}
        o1 == apaga_leds(out)
        o2 == WriteLeds(o1, lit, [l \in AllLeds |-> TRUE])
    IN  enciende_led(enciende_led(o2, b_left), b_right)

\* lines 569-572 / 582-585 after a descriptor fetch
EqLeds(bnk, op, out) ==
    set_led_status(bnk, op, enciende_led(enciende_led(out, b_left), b_right))

\* search_eq_strip after the sleep that follows the list request
SearchAfterList ==
    /\ pc = "list_wait"
    /\ LET r == SearchList(plugin_list) IN
        IF r.res = "fail" THEN
            /\ operation' = MixerOperation
            /\ mmix_out' = set_mixer_mode(bank, Out0)
            /\ plugin_list' = ListAfterSearch(plugin_list)
            /\ plugin_desc' = DescAfterSearch(plugin_desc)
            /\ pc' = "idle"
            /\ frame' = NoFrame
            /\ fresh' = NoReplies
            /\ NoSend
            /\ UNCHANGED sent
        ELSE IF r.res = "many" THEN
            /\ operation' = [mode |-> "read_keypress", strip |-> frame.strip_id,
                             plugin_pos |-> PosList(r.m_pos)]
            /\ mmix_out' = ReadKeypressLeds(Out0, r.m_pos)
            /\ plugin_list' = ListAfterSearch(plugin_list)
            /\ plugin_desc' = DescAfterSearch(plugin_desc)
            /\ pc' = "idle"
            /\ frame' = NoFrame
            /\ fresh' = NoReplies
            /\ NoSend
            /\ UNCHANGED sent
        ELSE IF Raises THEN
            \* the descriptor request raises: operation['plugin_pos'] is not assigned
            /\ mmix_out' = Out0
            /\ pc' = "idle"
            /\ frame' = NoFrame
            /\ fresh' = NoReplies
            /\ NoSend
            /\ UNCHANGED <<operation, plugin_list, plugin_desc, sent>>
        ELSE
            /\ Send(Cmd("/strip/plugin/descriptor", <<frame.strip_id, r.m_pos[1]>>))
            /\ sent' = Append(sent, Cmd("/strip/plugin/descriptor",
                                        <<frame.strip_id, r.m_pos[1]>>))
            /\ pc' = "desc_wait"
            /\ frame' = [frame EXCEPT !.pos = r.m_pos[1]]
            /\ mmix_out' = Out0
            /\ fresh' = [fresh EXCEPT !.desc = <<>>]
            /\ UNCHANGED <<operation, plugin_list, plugin_desc>>
    /\ UNCHANGED <<bank, note_press, env, cyc, prev, osc, raised>>

\* search_eq_strip after the sleep that follows the descriptor request
SearchAfterDesc ==
    /\ pc = "desc_wait"
    /\ LET bnk == SeedEqLeds(bank, plugin_desc)
           op == [operation EXCEPT !.plugin_pos = PosInt(frame.pos)]
       IN  /\ bank' = bnk
           /\ operation' = op
           /\ mmix_out' = EqLeds(bnk, op, Out0)
    /\ plugin_list' = ListAfterSearch(plugin_list)
    /\ plugin_desc' = DescAfterSearch(plugin_desc)
    /\ pc' = "idle"
    /\ frame' = NoFrame
    /\ fresh' = NoReplies
    /\ UNCHANGED <<note_press, sent, to_surface, console, env, cyc, prev, osc, raised>>

\* espera_indice_modulo_eq after its sleep
EsperaAfterDesc ==
    /\ pc = "espera_wait"
    /\ LET bnk == SeedEqLeds(bank, plugin_desc) IN
           /\ bank' = bnk
           /\ mmix_out' = set_led_status(bnk, operation, Out0)
    /\ plugin_list' = ListAfterEspera(plugin_list)
    /\ plugin_desc' = DescAfterEspera(plugin_desc)
    /\ pc' = "idle"
    /\ frame' = NoFrame
    /\ fresh' = NoReplies
    /\ UNCHANGED <<operation, note_press, sent, to_surface, console, env, cyc, prev, osc, raised>>

(***************************************************************************)
(* Specifications.  The operator works the controls of one strip position  *)
(* (env.pos), the bank buttons and Solo; in read_keypress every button.    *)
(***************************************************************************)
SoloNote(i) == mutes[i] + 1
EnvStrips == {env.pos + 8 * b : b \in Banks}

\* Mixer: presses of the mute or the rec control, banks, console feedback
Control == IF env.ctl = "mute" THEN mutes[env.pos] ELSE recs[env.pos]
MixNotes == {Control, b_left, b_right}

NextMix ==
    \/ \E n \in MixNotes : NoteOn(n)
    \/ OperarLed
    \/ \E n \in MixNotes : NoteOff(n)
    \/ \E s \in EnvStrips : ConsoleChange(s)
    \/ Deliver

SpecMix == Init /\ [][NextMix]_vars

\* Discovery: the Solo chord, the list and descriptor queries, read_keypress
\* (the mute button sends its Solo note while Solo is held; the rec button
\* is pressed under Solo too)
DiscNotes ==
    IF operation.mode = "read_keypress" THEN 1..27
    ELSE {b_solo, b_left, b_right}
            \cup (IF note_press.state THEN {SoloNote(env.pos), recs[env.pos]} ELSE {})

NextDisc ==
    \/ \E n \in DiscNotes : NoteOn(n)
    \/ \E n \in {b_solo} : NoteOff(n)
    \/ SearchAfterList
    \/ SearchAfterDesc
    \/ EsperaAfterDesc
    \/ Deliver

\* the strip position of the discovery runs: the last one, whose strips
\* have strip_id % 8 = 0
DiscPositions == {8}

InitDisc == Init /\ env.pos \in DiscPositions /\ env.ctl = "mute"

SpecDisc == InitDisc /\ [][NextDisc]_vars

\* EQ mode at work: the strip muted in the mix (24), the bank buttons and
\* the console's own mute changes, from the state discovery leaves when
\* strip 8 holds one mono equalizer whose descriptor reports nothing and
\* Solo has been released
InitEq ==
    /\ bank = [current |-> 0,
               led_stat_mix |-> [b \in Banks |-> [l \in LedIds |-> FALSE]],
               led_stat_eq |-> [b \in Banks |-> [l \in LedIds |-> FALSE]]]
    /\ operation = [mode |-> "EQ", strip |-> 8, plugin_pos |-> PosInt(1)]
    /\ note_press = [note |-> None, state |-> FALSE]
    /\ plugin_list = get_plugin_list(ListArgs(<<EqMono>>))
    /\ plugin_desc = <<>>
    /\ mmix_out = [led |-> EqLeds(bank, operation,
                                  [led |-> [l \in AllLeds |-> FALSE], log |-> {}]).led,
                   log |-> {}]
    /\ pc = "idle"
    /\ frame = NoFrame
    /\ sent = <<>>
    /\ to_surface = <<>>
    /\ console = [mute |-> [s \in Strips |-> FALSE], rec |-> [s \in Strips |-> FALSE]]
    /\ env = [pos |-> 8, ctl |-> "mute"]
    /\ cyc = NoCycle
    /\ fresh = NoReplies
    /\ prev = "EQ"
    /\ osc = "up"
    /\ raised = "none"

\* the continuous controls turned there: two that have no role in EQ mode
\* (1 and 23, a fader of Mixer mode), the general gain and the fader, at
\* the ends of the raw range
EqControls == {1, 23, 19, 62}
EqValues == {0, 127}

\* the buttons pressed in EQ mode: the mix mute, the bank buttons and one
\* that has no role there (2)
EqNotes == {mix_mute, b_left, b_right, 2}

NextEq ==
    \/ \E n \in EqNotes : NoteOn(n)
    \/ \E n \in {mix_mute, 2} : NoteOff(n)
    \/ \E c \in EqControls, v \in EqValues : ControlChange(c, v)
    \/ \E s \in {operation.strip} : ConsoleChange(s)
    \/ Deliver

SpecEq == InitEq /\ [][NextEq]_vars

\* the parameter map at work in EQ mode, in every bank: every key of
\* eq_fad_knob and the fader, pan and solo controls of the strip, with the
\* ends of the raw range and one step
MapControls == DOMAIN eq_fad_knob \cup {62, 18, 60}
MapValues == {0, 1, 127}

NextMap ==
    \/ \E c \in MapControls, v \in MapValues : ControlChange(c, v)
    \/ \E n \in {b_left, b_right} : NoteOn(n)
    \/ \E n \in {b_left, b_right} : NoteOff(n)

SpecMap == InitEq /\ [][NextMap]_vars

\* The end of a descriptor fetch, from the states in which search_eq_strip
\* (after a chord on position 8 of the current bank) or
\* espera_indice_modulo_eq (after the first lit rec button) sleeps on its
\* descriptor request, the replies of a module with up to MaxSeed
\* parameters in plugin_desc, and the EQ mirrors as earlier fetches left them
MaxSeed == 2
SeedParams == {<<"Highpass", 1>>, <<"Highpass", 0>>, <<"Lowpass", 1>>, <<"High pass freq", 1>>}
SeedDescs == UNION {[1..n -> {DescArgs(q[1], q[2]) : q \in SeedParams}] : n \in 0..MaxSeed}
SeedOlds == {<<>>, <<DescArgs("Lowshelf", 1), DescArgs("Highpass", 1)>>}

InitSeed ==
    \E current \in Banks, old \in SeedOlds, desc \in SeedDescs,
       at \in {"desc_wait", "espera_wait"} :
        LET strip_id == 8 + 8 * current
            dark == [led |-> [l \in AllLeds |-> FALSE], log |-> {}]
        IN
        /\ bank = [current |-> current,
                   led_stat_mix |-> [b \in Banks |-> [l \in LedIds |-> FALSE]],
                   led_stat_eq |-> [b \in Banks |-> SeedRow(old)]]
        /\ pc = at
        /\ plugin_desc = desc
        /\ plugin_list = get_plugin_list(ListArgs(IF at = "desc_wait" THEN <<EqMono>>
                                                  ELSE <<EqMono, EqMono>>))
        /\ operation = [mode |-> "EQ", strip |-> strip_id,
                        plugin_pos |-> IF at = "desc_wait" THEN PosNone ELSE PosInt(1)]
        /\ note_press = IF at = "desc_wait" THEN [note |-> b_solo, state |-> TRUE]
                        ELSE [note |-> None, state |-> FALSE]
        /\ frame = [strip_id |-> strip_id, pos |-> 1,
                    note |-> IF at = "desc_wait" THEN SoloNote(8) ELSE recs[1]]
        /\ sent = IF at = "desc_wait"
                  THEN <<Cmd("/strip/plugin/list", <<strip_id>>),
                         Cmd("/strip/plugin/descriptor", <<strip_id, 1>>)>>
                  ELSE <<Cmd("/strip/plugin/descriptor", <<strip_id, 1>>)>>
        /\ fresh = [list |-> IF at = "desc_wait" THEN plugin_list ELSE <<>>, desc |-> desc]
        /\ prev = IF at = "desc_wait" THEN "mixer" ELSE "read_keypress"
        /\ mmix_out = IF at = "desc_wait"
                      THEN [led |-> set_led_status(bank, MixerOperation, dark).led, log |-> {}]
                      ELSE [led |-> ReadKeypressLeds(dark, <<1, 2>>).led, log |-> {}]
        /\ to_surface = <<>>
        /\ console = [mute |-> [s \in Strips |-> FALSE], rec |-> [s \in Strips |-> FALSE]]
        /\ env = [pos |-> 8, ctl |-> "mute"]
        /\ cyc = NoCycle
        /\ osc = "up"
        /\ raised = "none"

NextSeed ==
    \/ SearchAfterDesc
    \/ EsperaAfterDesc

SpecSeed == InitSeed /\ [][NextSeed]_vars

\* Discovery over longer chains: the chord Solo + strip 8 has been pressed in
\* Mixer mode, the list request is out and the console's reply, for a chain
\* of up to MaxChain equalizers among other modules, has been stored; then
\* the search goes on, Solo is released and rec buttons are pressed
MaxChain == 9
ListChains ==
    {lead \o [i \in 1..k |-> name] \o tail :
        lead \in {<<>>, <<OtherPlugin>>}, name \in {EqMono, EqStereo},
        k \in 0..MaxChain, tail \in {<<>>, <<OtherPlugin, EqMono>>}}

InitList ==
    \E current \in Banks, chain \in ListChains :
        LET strip_id == 8 + 8 * current
            dark == [led |-> [l \in AllLeds |-> FALSE], log |-> {}]
        IN
        /\ bank = [current |-> current,
                   led_stat_mix |-> [b \in Banks |-> [l \in LedIds |-> FALSE]],
                   led_stat_eq |-> [b \in Banks |-> [l \in LedIds |-> FALSE]]]
        /\ pc = "list_wait"
        /\ plugin_desc = <<>>
        /\ plugin_list = get_plugin_list(ListArgs(chain))
        /\ operation = [MixerOperation EXCEPT !.mode = "EQ", !.strip = strip_id]
        /\ note_press = [note |-> b_solo, state |-> TRUE]
        /\ frame = [strip_id |-> strip_id, pos |-> 0, note |-> SoloNote(8)]
        /\ sent = <<Cmd("/strip/plugin/list", <<strip_id>>)>>
        /\ fresh = [list |-> plugin_list, desc |-> <<>>]
        /\ prev = "mixer"
        /\ mmix_out = [led |-> set_led_status(bank, MixerOperation, dark).led, log |-> {}]
        /\ to_surface = <<>>
        /\ console = [mute |-> [s \in Strips |-> FALSE], rec |-> [s \in Strips |-> FALSE]]
        /\ env = [pos |-> 8, ctl |-> "mute"]
        /\ cyc = NoCycle
        /\ osc = "up"
        /\ raised = "none"

NextList ==
    \/ SearchAfterList
    \/ SearchAfterDesc
    \/ EsperaAfterDesc
    \/ Deliver
    \/ \E n \in Range(recs) \cup {b_left, b_right} :
            operation.mode = "read_keypress" /\ NoteOn(n)
    \/ \E n \in Range(recs) \cup {b_solo, b_left, b_right} : NoteOff(n)

SpecList == InitList /\ [][NextList]_vars

(***************************************************************************)
(* The session: main connects the endpoint, the connection is lost, and    *)
(* start_loop runs run_main_async again.                                   *)
(***************************************************************************)
\* connection_lost / error_received: the endpoint is aborted and the loop
\* stops; the messages not yet handled are never handled
ConnectionLost ==
    /\ osc = "up"
    /\ osc' \in {"raises", "drops"}
    /\ to_surface' = <<>>
    /\ cyc' = NoCycle
    /\ UNCHANGED <<bank, operation, note_press, plugin_list, plugin_desc, mmix_out, pc,
                   frame, sent, console, env, fresh, prev, raised>>

\* load_project: the console announces a new project ('/master/name' with
\* ' '); the endpoint is aborted and apaga_leds runs
LoadProject ==
    /\ osc = "up"
    /\ osc' \in {"raises", "drops"}
    /\ to_surface' = <<>>
    /\ mmix_out' = apaga_leds(Out0)
    /\ cyc' = NoCycle
    /\ UNCHANGED <<bank, operation, note_press, plugin_list, plugin_desc, pc,
                   frame, sent, console, env, fresh, prev, raised>>

\* run_main_async, started by start_loop: the two bank LEDs are turned off
\* and main connects the endpoint
StartSession ==
    /\ osc # "up"
    /\ osc' = "up"
    /\ mmix_out' = apaga_led(apaga_led(Out0, b_left), b_right)
    /\ cyc' = NoCycle
    /\ UNCHANGED <<bank, operation, note_press, plugin_list, plugin_desc, pc,
                   frame, sent, to_surface, console, env, fresh, prev, raised>>

SessionPositions == {1}
\* the strips whose flag changes at the console itself: the one of bank 0
SessionStrips == {env.pos}

NextSession ==
    \/ \E n \in MixNotes : NoteOn(n)
    \/ OperarLed
    \/ \E n \in MixNotes : NoteOff(n)
    \/ \E s \in SessionStrips : ConsoleChange(s)
    \/ Deliver
    \/ ConnectionLost
    \/ LoadProject
    \/ StartSession


\* the program starts with osc = None, before the first session connects
InitSession == Globals /\ osc = "raises" /\ env.pos \in SessionPositions

SpecSession == InitSession /\ [][NextSession]_vars

\* the surface worked before the first session connects: every osc.send raises
BootNotes ==
    {Control, b_left, b_right, b_solo}
        \cup (IF note_press.state THEN {SoloNote(env.pos)} ELSE {})

NextBoot ==
    \/ \E n \in BootNotes : NoteOn(n)
    \/ \E n \in {Control, b_solo} : NoteOff(n)

InitBoot == Globals /\ osc = "raises"

SpecBoot == InitBoot /\ [][NextBoot]_vars

\* the faders and knobs turned in Mixer mode, in every bank: each
\* continuous control, one that is none (1), and the values around the
\* solo threshold
KnobControls == Range(faders) \cup Range(knobs) \cup {1}
KnobValues == {0, 90, 91, 127}

NextKnob ==
    \/ \E c \in KnobControls, v \in KnobValues : ControlChange(c, v)
    \/ \E n \in {b_left, b_right} : NoteOn(n)
    \/ \E n \in {b_left, b_right} : NoteOff(n)

InitKnob == Init /\ env.pos = 1 /\ env.ctl = "mute"

SpecKnob == InitKnob /\ [][NextKnob]_vars

(***************************************************************************)
(* Properties of the Mixer toggles.                                        *)
(***************************************************************************)
\* the n-th message of the sequence recorded in cyc has been handled to its
\* end, and nothing else has happened since the sequence began
Handled(n) == cyc.n = n /\ pc = "idle"

\* the strip a mute or rec control addresses in bank b
StripOf(note, b) ==
    (IF note \in Range(mutes) THEN Index(mutes, note) ELSE Index(recs, note)) + 1 + 8 * b

PathOf(note) == IF note \in Range(mutes) THEN "/strip/mute" ELSE "/strip/recenable"

Bit(v) == IF v THEN 1 ELSE 0

\* C1: in Mixer mode with no control held, a press of the mute button of
\* position i in bank b whose mirror entry is v emits /strip/mute (i+8b) with
\* the value opposite to v, and once the press has been handled, with no
\* console feedback delivered, the mirror entry and the LED of the control
\* both show the new value: true and lit after a press on false, false and
\* unlit after a press on true.
C1_MutePressFlipsMirrorAndLed ==
    (Handled(1) /\ cyc.note \in Range(mutes)) =>
        /\ cyc.first = <<Cmd("/strip/mute",
                             <<StripOf(cyc.note, cyc.bank), Bit(~cyc.before)>>)>>
        /\ bank.led_stat_mix[cyc.bank][cyc.note] = ~cyc.before
        /\ mmix_out.led[cyc.note] = ~cyc.before

\* C2: in Mixer mode, two consecutive press / release cycles of one mute or
\* rec control, with no other event in between, leave the mirror entry of
\* the control at its value before the first press, and emit exactly two
\* commands for the strip of the control whose values are opposite.
C2_TwoPressesRestoreAndOppose ==
    Handled(4) =>
        /\ bank.led_stat_mix[cyc.bank][cyc.note] = cyc.before
        /\ Len(cyc.first) = 1
        /\ Len(cyc.second) = 1
        /\ \A m \in {cyc.first[1], cyc.second[1]} :
                /\ m.path = PathOf(cyc.note)
                /\ m.args[1] = StripOf(cyc.note, cyc.bank)
        /\ {cyc.first[1].args[2], cyc.second[1].args[2]} = {0, 1}

\* no message is in flight and no surface message is being handled
Quiescent == pc = "idle" /\ to_surface = <<>>

\* C8: for every interleaving of mute presses and console notifications,
\* once everything has been delivered and no event is being handled, the
\* mirror entry of the mute control of position i in bank b equals the
\* console's mute flag of strip i+8b, for every bank and position.
C8_MirrorEqualsConsoleMute ==
    Quiescent =>
        \A b \in Banks, i \in 1..8 :
            bank.led_stat_mix[b][mutes[i]] = console.mute[i + 8 * b]

(***************************************************************************)
(* Properties of discovery.                                                *)
(***************************************************************************)
ListCmd(s) == Cmd("/strip/plugin/list", <<s>>)
DescCmd(s, p) == Cmd("/strip/plugin/descriptor", <<s, p>>)

SoloHeld == note_press = [note |-> b_solo, state |-> TRUE]

\* the notes the mute buttons send while Solo is held, and the strip such a
\* note stands for in the current bank
ChordNotes == {n \in 1..27 : (n - 1) \in Range(mutes)}
ChordStrip(n) == Index(mutes, n - 1) + 1 + 8 * bank.current

\* Operation State with nothing set
Unset == [mode |-> "mixer", strip |-> 0, plugin_pos |-> [kind |-> "None", val |-> <<>>]]

\* the module names of a list reply: entries 5, 8, 11, ...
ReplyNames(list) == [i \in 1..((Len(list) - 2) \div 3) |-> list[3 * i + 2]]

\* the positions of the equalizer modules of a list reply
EqPositions(list) ==
    {i \in DOMAIN ReplyNames(list) : ReplyNames(list)[i] \in {EqMono, EqStereo}}

\* the positions discovery collects: those of the mono equalizers, or those
\* of the stereo equalizers when there is no mono one
Collected(list) ==
    LET names == ReplyNames(list)
        mono == {i \in DOMAIN names : names[i] = EqMono}
    IN  IF mono # {} THEN mono ELSE {i \in DOMAIN names : names[i] = EqStereo}

\* the j-th smallest element of S
Jth(S, j) == CHOOSE x \in S : Cardinality({y \in S : y < x}) = j - 1

\* the value the descriptor entries give LED l: that of the last entry whose
\* parameter name belongs to l, and off when there is none
DescLed(desc, l) ==
    LET hits == {i \in 1..Len(desc) :
                    desc[i][6] \in DOMAIN eq_leds /\ eq_leds[desc[i][6]] = l}
    IN  hits # {} /\ desc[CHOOSE i \in hits : \A k \in hits : k <= i][13] > 0

\* the list query of a chord ends in this step
ListQueryEnds == pc = "list_wait" /\ pc' # "list_wait"

C3_Press ==
    \A n \in ChordNotes :
        (/\ pc = "idle"
         /\ SoloHeld
         /\ \/ operation.mode = "mixer"
            \/ operation.mode = "EQ" /\ operation.strip # ChordStrip(n)
         /\ NoteOn(n))
        => (sent' = <<ListCmd(ChordStrip(n))>> /\ pc' = "list_wait")

C3_List ==
    (ListQueryEnds /\ fresh.list # <<>> /\ Cardinality(EqPositions(fresh.list)) = 1)
        => LET p == CHOOSE i \in EqPositions(fresh.list) : TRUE IN
            /\ sent' = Append(sent, DescCmd(sent[1].args[1], p))
            /\ pc' = "desc_wait"

C3_Done ==
    (pc = "desc_wait" /\ pc' = "idle")
        => LET s == sent[1].args[1]
               row == bank'.led_stat_eq[bank'.current]
               muted == bank'.led_stat_mix[bank'.current][mutes[((s - 1) % 8) + 1]]
           IN  /\ operation' = [mode |-> "EQ", strip |-> s,
                                plugin_pos |-> [kind |-> "int", val |-> <<sent[2].args[2]>>]]
               /\ \A l \in LedIds : row[l] = DescLed(plugin_desc, l)
               /\ \A l \in LedIds : mmix_out'.led[l] = (row[l] \/ (l = 24 /\ muted))

\* C3: with Solo held, the press of the mute button of position i in the
\* current bank b, from Mixer mode or from EQ mode on another strip, sends
\* /strip/plugin/list (i+8b); when the reply to it holds exactly one
\* equalizer, at position p, /strip/plugin/descriptor (i+8b) p follows; and
\* when the event ends mode = EQ, strip = i+8b, plugin_pos = p and the EQ
\* LEDs show what the descriptor entries say.
C3_ChordEntersEq == [][C3_Press /\ C3_List /\ C3_Done]_vars

\* an EQ strip was left for another one by the chord, and a descriptor
\* entry lit the Highpass LED
C3_Reached ==
    /\ pc = "idle"
    /\ prev = "EQ"
    /\ operation.mode = "EQ"
    /\ operation.plugin_pos.kind = "int"
    /\ sent = <<ListCmd(operation.strip),
                DescCmd(operation.strip, operation.plugin_pos.val[1])>>
    /\ mmix_out.led[eq_leds["Highpass"]]

C4_Found ==
    (ListQueryEnds /\ Len(plugin_list) >= 4 /\ Cardinality(Collected(plugin_list)) \in 2..8)
        => LET S == Collected(plugin_list)
               k == Cardinality(S)
           IN  /\ pc' = "idle"
               /\ operation'.mode = "read_keypress"
               /\ operation'.strip = sent[1].args[1]
               /\ operation'.plugin_pos.kind = "list"
               /\ Len(operation'.plugin_pos.val) = k
               /\ \A j \in 1..k : operation'.plugin_pos.val[j] = Jth(S, j)
               /\ {l \in Range(recs) : mmix_out'.led[l]} = {recs[j] : j \in 1..k}

\* the press of the j-th lit rec button in read_keypress selects the j-th
\* collected position
C4_Select(j) ==
    (/\ pc = "idle"
     /\ operation.mode = "read_keypress"
     /\ j <= Len(operation.plugin_pos.val)
     /\ NoteOn(recs[j]))
    => LET p == operation.plugin_pos.val[j] IN
        /\ operation' = [mode |-> "EQ", strip |-> operation.strip,
                         plugin_pos |-> [kind |-> "int", val |-> <<p>>]]
        /\ sent' = <<DescCmd(operation.strip, p)>>

\* C4, as stated: when discovery finds k equalizer positions, 2 <= k <= 8,
\* the mode becomes read_keypress and exactly the rec LEDs of the first k
\* strips are lit; a later press of the j-th lit rec button sets plugin_pos
\* to the j-th collected position, requests its descriptor and sets mode =
\* EQ with the strip unchanged.
C4_AnyPressSelects == [][C4_Found /\ \A j \in 1..8 : C4_Select(j)]_vars

\* C4, amended: the same, for a press made while no control is held (Solo,
\* which the chord needs, has been released).
C4_FreePressSelects ==
    [][C4_Found /\ \A j \in 1..8 : note_press.state \/ C4_Select(j)]_vars

\* the second lit rec button was pressed in read_keypress
C4_Reached ==
    /\ pc = "espera_wait"
    /\ prev = "read_keypress"
    /\ frame.note = recs[2]
    /\ operation.mode = "EQ"
    /\ operation.plugin_pos = [kind |-> "int", val |-> <<frame.pos>>]
    /\ sent = <<DescCmd(operation.strip, frame.pos)>>

\* the reply to a list query with which discovery fails
Fails(list) ==
    \/ Len(list) < 4
    \/ EqPositions(list) = {}
    \/ Cardinality(Collected(list)) > 8

\* C5: a chord-triggered discovery whose reply holds fewer than 4 entries,
\* or no equalizer name, or more than 8 equalizer positions, ends with mode =
\* mixer and strip and plugin_pos unset, never in EQ or read_keypress,
\* whatever the mode the chord was pressed in.
C5_FailedDiscoveryEndsInMixer ==
    [][(ListQueryEnds /\ fresh.list # <<>> /\ Fails(fresh.list))
            => (pc' = "idle" /\ operation' = Unset)]_vars

\* a chord pressed in EQ mode found more than eight equalizers
C5_Reached ==
    /\ pc = "idle"
    /\ prev = "EQ"
    /\ operation = Unset
    /\ Len(sent) = 1
    /\ sent[1].path = "/strip/plugin/list"
    /\ Cardinality(Collected(plugin_list)) > 8

\* C6: in EQ mode on strip C, the chord that resolves to C sets mode = mixer
\* with strip and plugin_pos unset, and sends no discovery request.
C6_SameChordLeavesEq ==
    [][\A n \in ChordNotes :
            (/\ pc = "idle"
             /\ SoloHeld
             /\ operation.mode = "EQ"
             /\ operation.strip = ChordStrip(n)
             /\ NoteOn(n))
            => (/\ operation' = Unset
                /\ sent' = <<>>
                /\ to_surface' = to_surface
                /\ pc' = "idle")]_vars

\* the chord was pressed in EQ mode and left it without sending anything
C6_Reached ==
    /\ pc = "idle"
    /\ prev = "EQ"
    /\ SoloHeld
    /\ operation = Unset
    /\ sent = <<>>
    /\ mmix_out.log = AllLeds

\* C7: in every reachable state, mode = mixer implies strip and plugin_pos
\* are unset, and mode = EQ implies strip is set and plugin_pos is one module
\* position, neither unset nor a list of candidates.
C7_OperationStateConsistent ==
    /\ operation.mode = "mixer" =>
            (operation.strip = None /\ operation.plugin_pos.kind = "None")
    /\ operation.mode = "EQ" =>
            (operation.strip # None /\ operation.plugin_pos.kind = "int")

\* C9: the outcome of a query depends only on the replies received for that
\* query: the mode a list query chooses is the one its own replies give, and
\* the EQ LED mirror a descriptor query seeds is the one its own replies
\* give; entries received for an earlier query have no influence.
C9_OutcomeFromOwnReplies ==
    [][/\ ListQueryEnds => SearchList(plugin_list) = SearchList(fresh.list)
       /\ (pc \in {"desc_wait", "espera_wait"} /\ pc' = "idle") =>
                \A l \in LedIds :
                    bank'.led_stat_eq[bank'.current][l] = DescLed(fresh.desc, l)]_vars

\* C10: a list or descriptor reply delivered while no discovery query is
\* active leaves plugin_list, plugin_desc, the bank mirrors and operation
\* unchanged.
C10_IdleReplyDiscarded ==
    [][(/\ pc = "idle"
        /\ to_surface # <<>>
        /\ Head(to_surface).path \in {"/strip/plugin/list", "/strip/plugin/descriptor"}
        /\ to_surface' = Tail(to_surface))
       => UNCHANGED <<plugin_list, plugin_desc, bank, operation>>]_vars

(***************************************************************************)
(* Properties of read_keypress, the bank buttons and the console feedback. *)
(***************************************************************************)
\* the rec buttons that select a candidate in read_keypress
LitRecs == {recs[j] : j \in 1..Len(operation.plugin_pos.val)}

\* C11: in read_keypress the press of any control other than a lit rec
\* button changes neither operation (mode, strip, candidate list), nor the
\* bank index, nor any LED mirror, and emits no console command, whatever
\* control is recorded as held, Solo included.
C11_OtherPressIgnoredInReadKeypress ==
    [][\A n \in 1..27 :
            (/\ pc = "idle"
             /\ operation.mode = "read_keypress"
             /\ n \notin LitRecs
             /\ NoteOn(n))
            => (/\ UNCHANGED <<operation, bank>>
                /\ sent' = <<>>
                /\ to_surface' = to_surface)]_vars

\* the bank and the strip position of a strip of the console
BankOfStrip(s) == (s - 1) \div 8
PosOfStrip(s) == ((s - 1) % 8) + 1

\* the next message handed over is a mute or record-arm notification
FlagNotified ==
    /\ to_surface # <<>>
    /\ Head(to_surface).path \in {"/strip/mute", "/strip/recenable"}
    /\ to_surface' = Tail(to_surface)

\* C12: in Mixer mode a /strip/mute or /strip/recenable notification for a
\* strip of a bank other than the current one sets that bank's mirror entry
\* to the notified value and writes no physical LED.
C12_OtherBankNotificationWritesNoLed ==
    [][(/\ operation.mode = "mixer"
        /\ FlagNotified
        /\ BankOfStrip(Head(to_surface).args[1]) # bank.current)
       => LET m == Head(to_surface)
              b == BankOfStrip(m.args[1])
              led == IF m.path = "/strip/mute" THEN mutes[PosOfStrip(m.args[1])]
                     ELSE recs[PosOfStrip(m.args[1])]
          IN  /\ bank'.led_stat_mix[b][led] = (m.args[2] = 1)
              /\ mmix_out'.log = {}
              /\ mmix_out'.led = mmix_out.led]_vars

\* a bank press at the end of the range leaves the index where it is
C13_Clamped ==
    /\ (bank.current = 0 /\ NoteOn(b_left)) => bank'.current = 0
    /\ (bank.current = 2 /\ NoteOn(b_right)) => bank'.current = 2

\* a bank press inside the range moves the index by one
C13_Moves ==
    /\ (bank.current > 0 /\ NoteOn(b_left)) => bank'.current = bank.current - 1
    /\ (bank.current < 2 /\ NoteOn(b_right)) => bank'.current = bank.current + 1

\* C13, as stated: the bank index is in {0, 1, 2} in every reachable state; a
\* bank-left press at 0 leaves it 0, a bank-right press at 2 leaves it 2, and
\* any other bank press changes it by exactly one.
C13_EveryBankPressMoves ==
    [][bank.current \in 0..2 /\ bank'.current \in 0..2 /\ C13_Clamped /\ C13_Moves]_vars

\* C13, amended: the same, where the bank presses that change the index by
\* one are those made with no control held and outside read_keypress.
C13_FreeBankPressMoves ==
    [][/\ bank.current \in 0..2
       /\ bank'.current \in 0..2
       /\ C13_Clamped
       /\ (note_press.state \/ operation.mode = "read_keypress" \/ C13_Moves)]_vars

\* a bank press in Mixer mode has rendered bank 2
C13_Reached ==
    /\ pc = "idle"
    /\ ~note_press.state
    /\ operation.mode = "mixer"
    /\ sent = <<>>
    /\ mmix_out.log = AllLeds
    /\ bank.current = 2
    /\ mmix_out.led[b_right]

(***************************************************************************)
(* Properties of the session and of a failing osc.send.                    *)
(***************************************************************************)
\* a step in which start_loop has started a new session
SessionStarts == osc # "up" /\ osc' = "up"

\* C14: when the connection was lost and a new session starts, every mute
\* and rec LED and both bank LEDs are off as the new session begins
C14_LedsOffAtSessionStart ==
    [][SessionStarts => \A l \in AllLeds : ~mmix_out'.led[l]]_vars

\* the handler of a press of note n reaches an osc.send
AttemptsSend(n) ==
    IF note_press.state
    THEN /\ note_press.note = b_solo
         /\ (n - 1) \in Range(mutes)
         /\ (operation.mode = "mixer" \/ operation.strip # ChordStrip(n))
    ELSE \/ operation.mode = "read_keypress" /\ n \in LitRecs
         \/ operation.mode = "mixer" /\ n \in LedIds
         \/ operation.mode = "EQ" /\ n \in (DOMAIN eq_led_trigger \cup {mix_mute})

\* C15: when the osc.send of a press raises, the handler ends (later events
\* are handled), and the LED mirrors and operation are as before the press
C15_FailedSendLeavesState ==
    [][\A n \in 1..27 :
            (Raises /\ AttemptsSend(n) /\ NoteOn(n))
            => (/\ pc' = "idle"
                /\ operation' = operation
                /\ bank'.led_stat_mix = bank.led_stat_mix
                /\ bank'.led_stat_eq = bank.led_stat_eq)]_vars

(***************************************************************************)
(* Properties of Solo + rec.                                               *)
(***************************************************************************)
\* C16: in every mode a press of a rec button while Solo is held changes
\* neither operation nor bank (index and mirrors), sends no command and
\* writes no LED
C16_SoloRecIgnored ==
    [][\A n \in Range(recs) :
            (SoloHeld /\ pc = "idle" /\ NoteOn(n))
            => (/\ UNCHANGED <<operation, bank, note_press>>
                /\ sent' = <<>>
                /\ to_surface' = to_surface
                /\ console' = console
                /\ mmix_out'.log = {}
                /\ mmix_out'.led = mmix_out.led
                /\ pc' = "idle")]_vars

\* Solo is held in EQ mode with a position selected, and the last surface
\* message, which arrived in EQ mode, was ignored
C16_Reached ==
    /\ SoloHeld /\ pc = "idle"
    /\ operation.mode = "EQ" /\ operation.plugin_pos.kind = "int"
    /\ prev = "EQ" /\ sent = <<>> /\ mmix_out.log = {}

(***************************************************************************)
(* Properties of the knobs.                                                *)
(***************************************************************************)
\* the knobs whose table index is r modulo 3
KnobsOfRole(r) == {c \in Range(knobs) : Index(knobs, c) % 3 = r}
RolePath(r) ==
    CASE r = 0 -> "/strip/trimdB"
      [] r = 1 -> "/strip/pan_stereo_position"
      [] r = 2 -> "/strip/solo"

\* C17: in Mixer mode the knob at index k of the table works trim, pan or
\* the solo threshold according to k modulo 3 and addresses strip
\* (k div 3) + 1 + 8 * current bank; the 24 knobs are 8 of each role, no
\* knob in two roles
C17_KnobRoleByIndex ==
    [][/\ \A r \in 0..2 : Cardinality(KnobsOfRole(r)) = 8
       /\ Cardinality(Range(knobs)) = 24
       /\ \A c \in Range(knobs), v \in KnobValues :
            (operation.mode = "mixer" /\ ControlChange(c, v))
            => (/\ Len(sent') = 1
                /\ sent'[1].path = RolePath(Index(knobs, c) % 3)
                /\ sent'[1].args[1] = (Index(knobs, c) \div 3) + 1 + 8 * bank.current)]_vars

\* the last knob of the table has been turned past the solo threshold in
\* the last bank
C17_Reached ==
    /\ pc = "idle" /\ operation.mode = "mixer" /\ bank.current = 2
    /\ sent = <<Cmd("/strip/solo", <<24, 1, 0>>)>>

(***************************************************************************)
(* Properties of the mute of the active strip in EQ mode.                  *)
(***************************************************************************)
\* the mirrored mute of the active strip: the entry of its own bank and position
OwnMute(bnk) == bnk.led_stat_mix[BankOfStrip(operation.strip)][mutes[PosOfStrip(operation.strip)]]

\* C18: in EQ mode with no control held, in every current bank, a press of
\* the mix mute (24) sends /strip/mute to the active strip with the value
\* opposite to the mirrored mute of that strip, and flips that mirror entry
C18_MixMuteTogglesActiveStrip ==
    [][(/\ pc = "idle" /\ operation.mode = "EQ" /\ ~note_press.state
        /\ NoteOn(mix_mute))
       => (/\ sent' = <<Cmd("/strip/mute",
                            <<operation.strip, IF OwnMute(bank) THEN 0 ELSE 1>>)>>
           /\ OwnMute(bank') = ~OwnMute(bank))]_vars

(***************************************************************************)
(* Properties of the seeding of the EQ mirror.                             *)
(***************************************************************************)
\* a descriptor fetch ends in this step
FetchEnds == pc \in {"desc_wait", "espera_wait"} /\ pc' = "idle"

\* C19: when a descriptor fetch ends, each entry of the current bank's EQ
\* mirror is on exactly when the last buffer entry that resolves to its LED
\* has a positive value (off when none resolves to it), and the EQ mirrors
\* of the other two banks are as before
C19_FetchSeedsEqMirror ==
    [][FetchEnds
       => (/\ bank'.current = bank.current
           /\ \A l \in LedIds :
                bank'.led_stat_eq[bank.current][l] = DescLed(plugin_desc, l)
           /\ \A b \in Banks \ {bank.current} :
                bank'.led_stat_eq[b] = bank.led_stat_eq[b])]_vars

\* a fetch has ended on a buffer that names Highpass twice, on and then off,
\* in a bank whose mirror had Highpass and Lowshelf on
C19_Reached ==
    /\ pc = "idle" /\ operation.mode = "EQ"
    /\ plugin_desc = <<DescArgs("Highpass", 1), DescArgs("Highpass", 0)>>
    /\ \A l \in LedIds : ~bank.led_stat_eq[bank.current][l]
    /\ \E b \in Banks \ {bank.current} :
            bank.led_stat_eq[b][eq_leds["Highpass"]] /\ bank.led_stat_eq[b][eq_leds["Lowshelf"]]

(***************************************************************************)
(* Properties of a bank press in Mixer mode.                               *)
(***************************************************************************)
\* C20: in Mixer mode with no control held, after a bank press every mute
\* and rec LED shows the mixer mirror of the new current bank, the bank-left
\* LED is lit exactly in bank 1 and the bank-right LED exactly in bank 2;
\* the press sends nothing, changes no mirror and no field of operation,
\* and is not recorded as held
C20_BankPressRendersNewBank ==
    [][\A n \in {b_left, b_right} :
            (/\ pc = "idle" /\ operation.mode = "mixer" /\ ~note_press.state
             /\ NoteOn(n))
            => (/\ \A l \in LedIds :
                    mmix_out'.led[l] = bank'.led_stat_mix[bank'.current][l]
                /\ mmix_out'.led[b_left] = (bank'.current = 1)
                /\ mmix_out'.led[b_right] = (bank'.current = 2)
                /\ sent' = <<>>
                /\ to_surface' = to_surface
                /\ bank'.led_stat_mix = bank.led_stat_mix
                /\ bank'.led_stat_eq = bank.led_stat_eq
                /\ operation' = operation
                /\ note_press' = note_press)]_vars

\* a bank press has just rendered bank 1, in which a flag is on
C20_Reached ==
    /\ pc = "idle" /\ operation.mode = "mixer" /\ ~note_press.state
    /\ sent = <<>> /\ mmix_out.log = AllLeds
    /\ bank.current = 1 /\ mmix_out.led[b_left] /\ ~mmix_out.led[b_right]
    /\ \E l \in LedIds : bank.led_stat_mix[1][l] /\ mmix_out.led[l]

(***************************************************************************)
(* Properties of the controls that have no role.                           *)
(***************************************************************************)
\* a button with no role in the mode: no mute or rec button in Mixer mode,
\* no key of eq_led_trigger nor the mix mute in EQ mode (the bank buttons
\* and Solo have their own role)
UnmappedNote(n) ==
    /\ n \notin {b_left, b_right, b_solo}
    /\ \/ operation.mode = "mixer" /\ n \notin LedIds
       \/ operation.mode = "EQ" /\ n \notin (DOMAIN eq_led_trigger \cup {mix_mute})

\* a fader or knob with no role in the mode
UnmappedControl(c) ==
    \/ operation.mode = "mixer" /\ c \notin (Range(faders) \cup Range(knobs))
    \/ operation.mode = "EQ" /\ c \notin ({62, 18, 60} \cup DOMAIN eq_fad_knob)

\* nothing is sent, no exception leaves surface_callback, and the mirrors
\* and operation are as before
SilentNoOp ==
    /\ sent' = <<>>
    /\ to_surface' = to_surface
    /\ raised' = "none"
    /\ bank' = bank
    /\ operation' = operation

\* C21: in Mixer and in EQ mode an event of a control that is in no table
\* of the mode sends nothing, raises nothing out of surface_callback and
\* leaves the mirrors and operation unchanged
C21_UnmappedControlIsNoOp ==
    [][/\ \A n \in 1..27 :
            (pc = "idle" /\ ~note_press.state /\ UnmappedNote(n) /\ NoteOn(n)) => SilentNoOp
       /\ \A c \in EqControls \cup KnobControls, v \in EqValues \cup KnobValues :
            (pc = "idle" /\ UnmappedControl(c) /\ ControlChange(c, v)) => SilentNoOp]_vars

(***************************************************************************)
(* Properties of the parameter map.                                        *)
(***************************************************************************)
\* x + y for two fixed-point numbers
FixedSum(x, y) ==
    <<x[1] + y[1] + ((x[2] + y[2]) \div 1000000), (x[2] + y[2]) % 1000000>>

\* v times the fixed-point number x, by doubling
RECURSIVE FixedTimes(_, _)
FixedTimes(x, v) ==
    IF v = 0 THEN <<0, 0>>
    ELSE LET h == FixedTimes(x, v \div 2)
         IN  FixedSum(FixedSum(h, h), IF v % 2 = 1 THEN x ELSE <<0, 0>>)

\* min plus v steps of an entry of eq_fad_knob
MapValue(e, v) == FixedSum(<<e[1], e[2]>>, FixedTimes(<<e[3], e[4]>>, v))

\* C22: in EQ mode a change with raw value v of a control that is a key of
\* eq_fad_knob sends exactly one /strip/plugin/parameter command for the
\* active strip, the selected module position and the control's slot, with
\* the value min + step * v (min itself for v = 0), and changes no mirror,
\* no field of operation and not the held control
C22_MappedChangeSendsParameter ==
    [][\A c \in DOMAIN eq_fad_knob, v \in MapValues :
            (pc = "idle" /\ operation.mode = "EQ" /\ ControlChange(c, v))
            => (/\ sent' = <<Cmd("/strip/plugin/parameter",
                                 <<operation.strip, operation.plugin_pos.val[1],
                                   eq_fad_knob[c][5]>> \o MapValue(eq_fad_knob[c], v))>>
                /\ (v = 0 => SubSeq(sent'[1].args, 4, 5)
                                = <<eq_fad_knob[c][1], eq_fad_knob[c][2]>>)
                /\ raised' = "none"
                /\ UNCHANGED <<bank, operation, note_press>>)]_vars

\* the general gain (19: -18.0, 0.283464, slot 2) has been turned fully up
\* in another bank than that of the active strip
C22_Reached ==
    /\ pc = "idle" /\ operation.mode = "EQ" /\ bank.current = 1
    /\ sent = <<Cmd("/strip/plugin/parameter", <<8, 1, 2, 17, 999928>>)>>

(***************************************************************************)
(* Properties of a press made while another control is held.               *)
(***************************************************************************)
\* the held flag is set exactly when a held note is recorded
HeldRecorded(np) == np.state <=> (np.note # None)

\* C23: while a control other than Solo is recorded as held, a press of any
\* other control sends nothing, writes no LED and changes neither bank
\* (index and mirrors), operation nor the held control; and the held flag is
\* set exactly when a held control is recorded
C23_PressUnderHeldIgnored ==
    [][/\ HeldRecorded(note_press) /\ HeldRecorded(note_press')
       /\ \A n \in 1..27 :
            (/\ pc = "idle" /\ note_press.state /\ note_press.note # b_solo
             /\ n # note_press.note /\ NoteOn(n))
            => (/\ sent' = <<>>
                /\ to_surface' = to_surface
                /\ mmix_out'.log = {}
                /\ mmix_out'.led = mmix_out.led
                /\ UNCHANGED <<bank, operation, note_press>>)]_vars

\* a mute or rec button is held in Mixer mode in bank 1, its press has been
\* handled to the end, and the last surface message changed nothing
C23_Reached ==
    /\ pc = "idle" /\ operation.mode = "mixer" /\ bank.current = 1
    /\ note_press.state /\ note_press.note \in LedIds
    /\ sent = <<>> /\ mmix_out.log = {} /\ cyc = NoCycle


(***************************************************************************)
(* Properties of the wait for a key press.                                 *)
(***************************************************************************)
\* C24: whenever operation.mode is read_keypress, operation.strip is a strip
\* of 1..24 and operation.plugin_pos is a list of 2 to 8 module positions,
\* all at least 1 and strictly increasing, so that every lit rec button is
\* the button of one of the list's positions
C24_ReadKeypressCandidates ==
    operation.mode = "read_keypress" =>
        LET m_pos == operation.plugin_pos.val IN
        /\ operation.strip \in 1..24
        /\ operation.plugin_pos.kind = "list"
        /\ Len(m_pos) >= 2 /\ Len(m_pos) <= 8
        /\ \A i \in 1..Len(m_pos) : m_pos[i] >= 1
        /\ \A i, j \in 1..Len(m_pos) : i < j => m_pos[i] < m_pos[j]
        /\ \A j \in 1..Len(recs) : mmix_out.led[recs[j]] => j <= Len(m_pos)

\* the search has found eight equalizers behind another module and waits,
\* all eight rec buttons lit, for one of them
C24_Reached ==
    /\ pc = "idle" /\ operation.mode = "read_keypress"
    /\ operation.plugin_pos = PosList(<<2, 3, 4, 5, 6, 7, 8, 9>>)
    /\ \A j \in 1..Len(recs) : mmix_out.led[recs[j]]

====
